---------------------------- MODULE Spec2Model ----------------------------
(***************************************************************************)
(* Root-finding solvers of lab_3 / lab_3-1: bisection, regula falsi,       *)
(* Newton-Raphson and fixed-point iteration (with Aitken acceleration).    *)
(*                                                                         *)
(* Numbers are exact: a number is a record [n, d, e] standing for          *)
(* (n / d) * 10^e, kept in a canonical form, so that the source's          *)
(* constant 1e-14 and values below it are representable next to ordinary   *)
(* magnitudes.  Rounding of the binary floating point of the source is not *)
(* modelled.                                                               *)
(***************************************************************************)
EXTENDS Integers, Sequences, FiniteSets, TLC

(***************************************************************************)
(* Exact arithmetic                                                        *)
(***************************************************************************)
IAbs(k) == IF k < 0 THEN -k ELSE k

RECURSIVE GCD(_, _)
GCD(p, q) == IF q = 0 THEN p ELSE GCD(q, p % q)

RECURSIVE Pow10(_)
Pow10(k) == IF k = 0 THEN 1 ELSE 10 * Pow10(k - 1)

Zero == [n |-> 0, d |-> 1, e |-> 0]

\* Python's None / an unbound local: no number at all.
None == [n |-> 0, d |-> 0, e |-> 0]

IsNum(v) == v.d > 0

\* Pull the factors 10 of r.n and of r.d into the exponent.
RECURSIVE Strip10(_)
Strip10(r) ==
    IF r.n % 10 = 0
    THEN Strip10([n |-> r.n \div 10, d |-> r.d, e |-> r.e + 1])
    ELSE IF r.d % 10 = 0
    THEN Strip10([n |-> r.n, d |-> r.d \div 10, e |-> r.e - 1])
    ELSE r

\* Cancel the factors 2 and 5 that 10^e shares with d (e > 0) or n (e < 0),
\* so that the fraction (n * 10^e) / d is in lowest terms.
RECURSIVE Cancel10(_)
Cancel10(r) ==
    IF r.e > 0 /\ r.d % 2 = 0
    THEN Cancel10([n |-> r.n * 5, d |-> r.d \div 2, e |-> r.e - 1])
    ELSE IF r.e > 0 /\ r.d % 5 = 0
    THEN Cancel10([n |-> r.n * 2, d |-> r.d \div 5, e |-> r.e - 1])
    ELSE IF r.e < 0 /\ r.n % 2 = 0
    THEN Cancel10([n |-> r.n \div 2, d |-> r.d * 5, e |-> r.e + 1])
    ELSE IF r.e < 0 /\ r.n % 5 = 0
    THEN Cancel10([n |-> r.n \div 5, d |-> r.d * 2, e |-> r.e + 1])
    ELSE r

Reduced(n, d, g, e) == [n |-> n \div g, d |-> d \div g, e |-> e]
WithSign(s, r) == [n |-> s * r.n, d |-> r.d, e |-> r.e]

\* The canonical record of (n / d) * 10^e, d # 0.
Norm(n, d, e) ==
    IF n = 0 THEN Zero
    ELSE WithSign(IF (n < 0) = (d < 0) THEN 1 ELSE -1,
                  Strip10(Cancel10(Strip10(
                      Reduced(IAbs(n), IAbs(d), GCD(IAbs(n), IAbs(d)), e)))))

Int2Num(k) == Norm(k, 1, 0)

\* Canonical records written out: an integer k with k % 10 # 0, and a
\* fraction p / q in lowest terms with p % 10 # 0 and q % 10 # 0.
Whole(k) == [n |-> k, d |-> 1, e |-> 0]
Part(p, q) == [n |-> p, d |-> q, e |-> 0]

Frac(p, q) == Norm(p, q, 0)
Sci(m, ex) == Norm(m, 1, ex)

Neg(u) == [n |-> -u.n, d |-> u.d, e |-> u.e]
Abs(u) == [n |-> IAbs(u.n), d |-> u.d, e |-> u.e]
Sign(u) == IF u.n > 0 THEN 1 ELSE IF u.n < 0 THEN -1 ELSE 0

\* Common factors g1 of u.n, v.d and g2 of v.n, u.d are cancelled before
\* multiplying, to keep the integers small.
MulCancelled(u, v, g1, g2) ==
    Norm((u.n \div g1) * (v.n \div g2), (u.d \div g2) * (v.d \div g1), u.e + v.e)

Mul(u, v) ==
    IF u.n = 0 \/ v.n = 0 THEN Zero
    ELSE MulCancelled(u, v, GCD(IAbs(u.n), v.d), GCD(IAbs(v.n), u.d))

\* 1 / v, v # 0.
Inv(v) == IF v.n < 0 THEN [n |-> -v.d, d |-> -v.n, e |-> -v.e]
          ELSE [n |-> v.d, d |-> v.n, e |-> -v.e]
Div(u, v) == Mul(u, Inv(v))

\* Sum over the common exponent m and the denominator lcm(u.d, v.d).
AddAligned(u, v, m, g) ==
    Norm(u.n * Pow10(u.e - m) * (v.d \div g)
           + v.n * Pow10(v.e - m) * (u.d \div g),
         (u.d \div g) * v.d, m)

Add(u, v) ==
    IF u.n = 0 THEN v
    ELSE IF v.n = 0 THEN u
    ELSE AddAligned(u, v, IF u.e < v.e THEN u.e ELSE v.e, GCD(u.d, v.d))
Sub(u, v) == Add(u, Neg(v))

\* p * 10^k < q for integers p > 0, k >= 0, without forming p * 10^k.
RECURSIVE ScaledLess(_, _, _)
ScaledLess(p, k, q) ==
    IF k = 0 THEN p < q
    ELSE IF q <= p THEN FALSE
    ELSE ScaledLess(p, k - 1, ((q - 1) \div 10) + 1)

\* l * 10^k < r for integers l, r > 0 and any integer k.
CrossLess(l, r, k) ==
    IF k >= 0 THEN ScaledLess(l, k, r) ELSE ~ ScaledLess(r, -k, l + 1)

PosLessCancelled(u, v, gn, gd) ==
    CrossLess((u.n \div gn) * (v.d \div gd), (v.n \div gn) * (u.d \div gd),
              u.e - v.e)

\* u < v for u, v > 0.
PosLess(u, v) == PosLessCancelled(u, v, GCD(u.n, v.n), GCD(u.d, v.d))

SignedLess(u, v, su, sv) ==
    IF su # sv THEN su < sv
    ELSE IF su = 0 THEN FALSE
    ELSE IF su > 0 THEN PosLess(u, v)
    ELSE PosLess(Abs(v), Abs(u))

Less(u, v) == SignedLess(u, v, Sign(u), Sign(v))
Leq(u, v) == ~ Less(v, u)

Half(u) == Div(u, Int2Num(2))

(***************************************************************************)
(* The caller-supplied functions: polynomials c0 + c1 x + c2 x^2 + c3 x^3, *)
(* given by their coefficients, and their derivatives.                     *)
(***************************************************************************)
Coefs(f) ==
    CASE f = "x2m2"    -> <<Whole(-2), Zero, Whole(1)>>
      [] f = "xm1"     -> <<Whole(-1), Whole(1)>>
      [] f = "xm2"     -> <<Whole(-2), Whole(1)>>
      [] f = "3xm1"    -> <<Whole(-1), Whole(3)>>
      [] f = "x2p1"    -> <<Whole(1), Zero, Whole(1)>>
      [] f = "x2m1"    -> <<Whole(-1), Zero, Whole(1)>>
      [] f = "x2"      -> <<Zero, Zero, Whole(1)>>
      [] f = "8x2"     -> <<Zero, Zero, Whole(8)>>
      [] f = "x2d16"   -> <<Zero, Zero, Part(1, 16)>>
      [] f = "x3m2xp2" -> <<Whole(2), Whole(-2), Zero, Whole(1)>>
      [] f = "tiny"    -> <<Sci(-2, -15), Sci(1, -15)>>
      [] f = "halfx"   -> <<Zero, Part(1, 2)>>
      [] f = "xp1"     -> <<Whole(1), Whole(1)>>
      [] f = "1mx"     -> <<Whole(1), Whole(-1)>>
      [] f = "one"     -> <<Whole(1)>>
      [] f = "2xp1"    -> <<Whole(1), Whole(2)>>

\* Horner evaluation of the polynomial with coefficients cs at x.
RECURSIVE Horner(_, _, _)
Horner(cs, k, x) ==
    IF k = Len(cs) THEN cs[k]
    ELSE Add(cs[k], Mul(x, Horner(cs, k + 1, x)))

F(f, x) == Horner(Coefs(f), 1, x)

\* Coefficients of the derivative.
DCoefs(cs) ==
    IF Len(cs) = 1 THEN <<Zero>>
    ELSE [k \in 1..(Len(cs) - 1) |-> Mul(Int2Num(k), cs[k + 1])]

DF(f, x) == Horner(DCoefs(Coefs(f)), 1, x)

(***************************************************************************)
(* Bounds and input sets                                                   *)
(***************************************************************************)
\* Largest max_iter tried.  The secant iterations of regula falsi have
\* fast-growing fractions and get their own, smaller, bound.
MaxIter == 5
MaxIterRF == 3

BracketFuncs == {"x2m2", "xm1", "3xm1", "x2p1", "x2m1", "tiny"}
Points == {Int2Num(k) : k \in -1..3}
Tols == {Sci(1, -16), Frac(1, 4), Frac(1, 2), Int2Num(1)}

(***************************************************************************)
(* State: the running call, its locals and what it returned                *)
(***************************************************************************)
VARIABLES
    pc,              \* "idle", "loop", "returned", "raised"
    solver,          \* which function was called
    args,            \* its arguments
    i,               \* loop iterations started so far
    a, b,            \* bracket (x0, x1 in regula_falsi)
    fa, fb,          \* cached endpoint values (metodos_num)
    c,               \* interior point (x2 in regula_falsi)
    c_anterior,
    x,               \* current iterate (Newton, fixed point)
    x_prev2, x_prev1,
    valores_aitken,
    xs,
    historial,
    result,          \* [root, iters, elapsed]; the history returned is
                     \* historial (xs in fixed_point_iteration)
    outcome,         \* which exit was taken
    f_anterior,      \* metodo_tanteo: f at the previous grid point
    intervalos,      \* metodo_tanteo: the sign changes found
    valor_actual,    \* metodo_newton_raphson on x^3 - x - 1: the iterate
    evaluaciones,    \* calls of f and of f' made by the latest iteration
    anterior         \* what the earlier calls with these inputs returned

vars == <<pc, solver, args, i, a, b, fa, fb, c, c_anterior, x, x_prev2,
          x_prev1, valores_aitken, xs, historial, result, outcome, f_anterior,
          intervalos, valor_actual, evaluaciones, anterior>>

bracketVars == <<a, b, fa, fb, c, c_anterior>>
pointVars == <<x, x_prev2, x_prev1, valores_aitken, xs>>
tanteoVars == <<f_anterior, intervalos>>

NoArgs == [f |-> "none", a |-> None, b |-> None, x0 |-> None, tol |-> None,
           max_iter |-> 0, usar_aitken |-> FALSE]
NoResult == [root |-> None, iters |-> 0, elapsed |-> "none"]

\* The calls of the caller-supplied function (f) and of its derivative (df)
\* made by one loop iteration.
Evaluado(nf, ndf) == [f |-> nf, df |-> ndf]
SinEvaluar == Evaluado(0, 0)

Init ==
    /\ pc = "idle"
    /\ solver = "none"
    /\ args = NoArgs
    /\ i = 0
    /\ a = None /\ b = None /\ fa = None /\ fb = None
    /\ c = None /\ c_anterior = None
    /\ x = None /\ x_prev2 = None /\ x_prev1 = None
    /\ valores_aitken = <<>>
    /\ xs = <<>>
    /\ historial = <<>>
    /\ result = NoResult
    /\ outcome = "none"
    /\ f_anterior = None
    /\ intervalos = <<>>
    /\ valor_actual = None
    /\ evaluaciones = SinEvaluar
    /\ anterior = <<>>

BracketArgs(f, a0, b0, tol, n) ==
    [f |-> f, a |-> a0, b |-> b0, x0 |-> None, tol |-> tol, max_iter |-> n,
     usar_aitken |-> FALSE]

\* The functions of metodos_num return time.time() - t0 as a fourth
\* component; the clock readings are not the program's to choose.
TimedSolvers ==
    {"bisection", "regula_falsi", "newton_raphson_num", "fixed_point_iteration",
     "probar_metodo_newton_raphson"}
Ticks == {0, 1}
Elapsed == IF solver \in TimedSolvers THEN Ticks ELSE {"none"}

Return(root, iters, how) ==
    /\ pc' = "returned"
    /\ \E t \in Elapsed :
           result' = [root |-> root, iters |-> iters, elapsed |-> t]
    /\ outcome' = how

Raise(what) ==
    /\ pc' = "raised"
    /\ outcome' = what
    /\ UNCHANGED result

Continue ==
    /\ pc' = "loop"
    /\ UNCHANGED <<result, outcome>>

\* The loop is entered: nothing has been returned by this call.
Begin ==
    /\ pc' = "loop"
    /\ result' = NoResult
    /\ outcome' = "none"

\* Largest number of calls made in a row with the same inputs.
MaxCalls == 2

\* What a finished call handed back to its caller.
Devuelto ==
    [outcome |-> outcome, result |-> result,
     history |-> IF solver = "fixed_point_iteration" THEN xs ELSE historial]

\* The first call of a solver.
Primera ==
    /\ pc = "idle"
    /\ UNCHANGED anterior

\* Solver s is called again, after its previous call has ended.
Repetida(s) ==
    /\ pc \in {"returned", "raised"}
    /\ solver = s
    /\ Len(anterior) + 1 < MaxCalls
    /\ anterior' = Append(anterior, Devuelto)

\* Variant: the list outlives the call (as a default argument would).
ListaCompartida(vieja) == vieja

\* historial = []
ListaNueva(vieja) == <<>>

(***************************************************************************)
(* Shared tests of the bracketing solvers                                  *)
(***************************************************************************)
\* Variant: rejects only when both values are positive.
InvalidBracketBothPositive(va, vb) == Less(Zero, va) /\ Less(Zero, vb)

\* if fa * fb > 0: raise ValueError
InvalidBracket(va, vb) == Less(Zero, Mul(va, vb))

\* Variant: the sign test reversed.
ReplaceBReversed(va, vc) == Less(Zero, Mul(va, vc))

\* if fa * fc < 0: b = c  else: a = c
ReplaceB(va, vc) == Less(Mul(va, vc), Zero)

\* Variant: a + b/2, the division binding tighter than the sum.
MidpointPrecedence(u, v) == Add(u, Half(v))

Midpoint(u, v) == Half(Add(u, v))

\* The solvers of metodos_num.py keep fa, fb (f0, f1) in locals.
NumSolvers == {"bisection", "regula_falsi"}

\* Entry of bisection, regula_falsi, metodo_intervalo_medio and
\* metodo_interpolacion_lineal: evaluate f at both ends, reject a bracket
\* with f(a) * f(b) > 0, otherwise start the loop with an empty history.
EnterBracket(s, f, a0, b0, tol, n) ==
    /\ solver' = s
    /\ args' = BracketArgs(f, a0, b0, tol, n)
    /\ historial' = ListaNueva(historial)
    /\ i' = 0
    /\ UNCHANGED pointVars
    /\ UNCHANGED tanteoVars
    /\ UNCHANGED valor_actual
    /\ evaluaciones' = SinEvaluar
    /\ IF InvalidBracket(F(f, a0), F(f, b0))
       THEN /\ Raise("invalid_bracket")
            /\ UNCHANGED bracketVars
       ELSE /\ Begin
            /\ a' = a0 /\ b' = b0
            /\ fa' = IF s \in NumSolvers THEN F(f, a0) ELSE None
            /\ fb' = IF s \in NumSolvers THEN F(f, b0) ELSE None
            /\ c' = None
            /\ c_anterior' = IF s \in NumSolvers THEN None ELSE a0

\* A call with arguments drawn from the input sets, or the same call again.
CallBracket(s, maxn) ==
    \/ /\ Primera
       /\ \E f \in BracketFuncs, a0 \in Points, b0 \in Points, tol \in Tols,
             n \in 1..maxn :
              a0 # b0 /\ EnterBracket(s, f, a0, b0, tol, n)
    \/ /\ Repetida(s)
       /\ EnterBracket(s, args.f, args.a, args.b, args.tol, args.max_iter)

(***************************************************************************)
(* metodos_num.bisection                                                   *)
(***************************************************************************)
\* Variant: the whole width compared, not the half width.
BisectionStopWidth(vfc, va, vb, tol) ==
    Less(Abs(vfc), tol) \/ Less(Sub(vb, va), tol)

\* if abs(fc) < tol or (b - a)/2 < tol
BisectionStop(vfc, va, vb, tol) ==
    Less(Abs(vfc), tol) \/ Less(Half(Sub(vb, va)), tol)

CallBisection == CallBracket("bisection", MaxIter)

StepBisection ==
    /\ pc = "loop" /\ solver = "bisection" /\ i < args.max_iter
    /\ LET cc == Midpoint(a, b)
           fc == F(args.f, cc)
       IN  /\ i' = i + 1
           /\ c' = cc
           /\ historial' = Append(historial,
                  [iteracion |-> i + 1, a |-> a, b |-> b, c |-> cc, fc |-> fc])
           /\ IF BisectionStop(fc, a, b, args.tol)
              THEN /\ Return(cc, i + 1, "converged")
                   /\ UNCHANGED <<a, b, fa, fb>>
              ELSE /\ Continue
                   /\ IF ReplaceB(fa, fc)
                      THEN /\ b' = cc /\ fb' = fc
                           /\ UNCHANGED <<a, fa>>
                      ELSE /\ a' = cc /\ fa' = fc
                           /\ UNCHANGED <<b, fb>>
    /\ UNCHANGED tanteoVars
    /\ UNCHANGED valor_actual
    /\ UNCHANGED <<anterior, solver, args, c_anterior>>
    /\ UNCHANGED pointVars
    /\ evaluaciones' = Evaluado(1, 0)

\* return (a+b)/2.0, maxiter, history
FinishBisection ==
    /\ pc = "loop" /\ solver = "bisection" /\ i = args.max_iter
    /\ Return(Midpoint(a, b), args.max_iter, "exhausted")
    /\ UNCHANGED tanteoVars
    /\ UNCHANGED valor_actual
    /\ UNCHANGED <<anterior, solver, args, i, historial>>
    /\ UNCHANGED bracketVars
    /\ UNCHANGED pointVars
    /\ UNCHANGED evaluaciones

(***************************************************************************)
(* metodos.metodo_intervalo_medio (= lab_3-1 metodo_biseccion)             *)
(***************************************************************************)
\* Variant: func(a) and func(b) evaluated anew at the top of each iteration.
EvaluacionesIntervaloMedioSinCache(sigue) == IF sigue THEN 4 ELSE 3

\* fc = func(c), and func(a) in the sign test of an iteration that goes on
EvaluacionesIntervaloMedio(sigue) == IF sigue THEN 2 ELSE 1

\* Variant: the residual test alone.
IntervaloMedioStopResidual(vfc, va, vb, tol) == Less(Abs(vfc), tol)

\* error = abs(b - a);  if error < tolerancia or abs(fc) < tolerancia
IntervaloMedioStop(vfc, va, vb, tol) ==
    Less(Abs(Sub(vb, va)), tol) \/ Less(Abs(vfc), tol)

CallIntervaloMedio == CallBracket("metodo_intervalo_medio", MaxIter)

StepIntervaloMedio ==
    /\ pc = "loop" /\ solver = "metodo_intervalo_medio" /\ i < args.max_iter
    /\ LET cc == Midpoint(a, b)
           fc == F(args.f, cc)
       IN  /\ i' = i + 1
           /\ c' = cc
           /\ historial' = Append(historial,
                  [iteracion |-> i + 1, a |-> a, b |-> b, c |-> cc, fc |-> fc,
                   error |-> Abs(Sub(b, a))])
           /\ IF IntervaloMedioStop(fc, a, b, args.tol)
              THEN /\ Return(cc, i + 1, "converged")
                   /\ UNCHANGED <<a, b>>
              ELSE /\ Continue
                   /\ IF ReplaceB(F(args.f, a), fc)
                      THEN /\ b' = cc
                           /\ UNCHANGED a
                      ELSE /\ a' = cc
                           /\ UNCHANGED b
    /\ UNCHANGED tanteoVars
    /\ UNCHANGED valor_actual
    /\ UNCHANGED <<anterior, solver, args, fa, fb, c_anterior>>
    /\ UNCHANGED pointVars
    /\ evaluaciones' = Evaluado(EvaluacionesIntervaloMedio(pc' = "loop"), 0)

\* return c, max_iter, historial
FinishIntervaloMedio ==
    /\ pc = "loop" /\ solver = "metodo_intervalo_medio" /\ i = args.max_iter
    /\ Return(c, args.max_iter, "exhausted")
    /\ UNCHANGED tanteoVars
    /\ UNCHANGED valor_actual
    /\ UNCHANGED <<anterior, solver, args, i, historial>>
    /\ UNCHANGED bracketVars
    /\ UNCHANGED pointVars
    /\ UNCHANGED evaluaciones

(***************************************************************************)
(* metodos_num.regula_falsi; a, b, fa, fb, c stand for x0, x1, f0, f1, x2  *)
(***************************************************************************)
\* Variant: the correction added, x1 + f1*(x1 - x0)/(f1 - f0).
SecantNumSuma(v0, v1, w0, w1) ==
    Add(v1, Div(Mul(w1, Sub(v1, v0)), Sub(w1, w0)))

\* x2 = x1 - f1*(x1 - x0)/(f1 - f0)
SecantNum(v0, v1, w0, w1) ==
    Sub(v1, Div(Mul(w1, Sub(v1, v0)), Sub(w1, w0)))

\* if abs(f2) < tol or abs(x2 - x1) < tol
RegulaFalsiStop(w2, v2, v1, tol) ==
    Less(Abs(w2), tol) \/ Less(Abs(Sub(v2, v1)), tol)

CallRegulaFalsi == CallBracket("regula_falsi", MaxIterRF)

StepRegulaFalsi ==
    /\ pc = "loop" /\ solver = "regula_falsi" /\ i < args.max_iter
    /\ i' = i + 1
    /\ IF Sub(fb, fa) = Zero
       THEN /\ Raise("zero_division")
            /\ UNCHANGED <<a, b, fa, fb, c, historial>>
       ELSE LET cc == SecantNum(a, b, fa, fb)
                fc == F(args.f, cc)
            IN  /\ c' = cc
                /\ historial' = Append(historial,
                       [iteracion |-> i + 1, a |-> a, b |-> b, c |-> cc,
                        fc |-> fc])
                /\ IF RegulaFalsiStop(fc, cc, b, args.tol)
                   THEN /\ Return(cc, i + 1, "converged")
                        /\ UNCHANGED <<a, b, fa, fb>>
                   ELSE /\ Continue
                        /\ IF ReplaceB(fa, fc)
                           THEN /\ b' = cc /\ fb' = fc
                                /\ UNCHANGED <<a, fa>>
                           ELSE /\ a' = cc /\ fa' = fc
                                /\ UNCHANGED <<b, fb>>
    /\ UNCHANGED tanteoVars
    /\ UNCHANGED valor_actual
    /\ UNCHANGED <<anterior, solver, args, c_anterior>>
    /\ UNCHANGED pointVars
    /\ evaluaciones' = Evaluado(IF pc' = "raised" THEN 0 ELSE 1, 0)

\* return x2, maxiter, history
FinishRegulaFalsi ==
    /\ pc = "loop" /\ solver = "regula_falsi" /\ i = args.max_iter
    /\ Return(c, args.max_iter, "exhausted")
    /\ UNCHANGED tanteoVars
    /\ UNCHANGED valor_actual
    /\ UNCHANGED <<anterior, solver, args, i, historial>>
    /\ UNCHANGED bracketVars
    /\ UNCHANGED pointVars
    /\ UNCHANGED evaluaciones

(***************************************************************************)
(* metodos.metodo_interpolacion_lineal (= lab_3-1 metodo_regla_falsa)      *)
(***************************************************************************)
\* fa, fb = func(a), func(b); fc = func(c) unless the division raised;
\* func(a) once more in the sign test of an iteration that goes on
EvaluacionesLineal(how) ==
    IF how = "raised" THEN 2 ELSE IF how = "loop" THEN 4 ELSE 3

\* Variant: the denominator with its terms exchanged, fa - fb.
SecantLinealInvertida(va, vb, wa, wb) ==
    Sub(va, Div(Mul(wa, Sub(vb, va)), Sub(wa, wb)))

\* c = a - fa * (b - a) / (fb - fa)
SecantLineal(va, vb, wa, wb) ==
    Sub(va, Div(Mul(wa, Sub(vb, va)), Sub(wb, wa)))

\* error = abs(c - c_anterior) if i > 0 else abs(b - a)
ErrorLineal(k, vc, vprev, va, vb) ==
    IF k > 0 THEN Abs(Sub(vc, vprev)) ELSE Abs(Sub(vb, va))

\* if error < tolerancia or abs(fc) < tolerancia
LinealStop(err, vfc, tol) == Less(err, tol) \/ Less(Abs(vfc), tol)

CallInterpolacionLineal == CallBracket("metodo_interpolacion_lineal", MaxIterRF)

StepInterpolacionLineal ==
    /\ pc = "loop" /\ solver = "metodo_interpolacion_lineal"
    /\ i < args.max_iter
    /\ i' = i + 1
    /\ fa' = F(args.f, a)
    /\ fb' = F(args.f, b)
    /\ IF Sub(fb', fa') = Zero
       THEN /\ Raise("zero_division")
            /\ UNCHANGED <<a, b, c, c_anterior, historial>>
       ELSE LET cc  == SecantLineal(a, b, fa', fb')
                fc  == F(args.f, cc)
                err == ErrorLineal(i, cc, c_anterior, a, b)
            IN  /\ c' = cc
                /\ historial' = Append(historial,
                       [iteracion |-> i + 1, a |-> a, b |-> b, c |-> cc,
                        fc |-> fc, error |-> err])
                /\ IF LinealStop(err, fc, args.tol)
                   THEN /\ Return(cc, i + 1, "converged")
                        /\ UNCHANGED <<a, b, c_anterior>>
                   ELSE /\ Continue
                        /\ c_anterior' = cc
                        /\ IF ReplaceB(F(args.f, a), fc)
                           THEN /\ b' = cc
                                /\ UNCHANGED a
                           ELSE /\ a' = cc
                                /\ UNCHANGED b
    /\ UNCHANGED tanteoVars
    /\ UNCHANGED valor_actual
    /\ UNCHANGED <<anterior, solver, args>>
    /\ UNCHANGED pointVars
    /\ evaluaciones' = Evaluado(EvaluacionesLineal(pc'), 0)

\* return c, max_iter, historial
FinishInterpolacionLineal ==
    /\ pc = "loop" /\ solver = "metodo_interpolacion_lineal"
    /\ i = args.max_iter
    /\ Return(c, args.max_iter, "exhausted")
    /\ UNCHANGED tanteoVars
    /\ UNCHANGED valor_actual
    /\ UNCHANGED <<anterior, solver, args, i, historial>>
    /\ UNCHANGED bracketVars
    /\ UNCHANGED pointVars
    /\ UNCHANGED evaluaciones

(***************************************************************************)
(* Newton-Raphson                                                          *)
(***************************************************************************)
NewtonFuncs == {"xm2", "x2", "8x2", "x2d16", "x2p1", "x3m2xp2", "tiny"}
StartPoints == {Int2Num(0), Int2Num(1)}

PointArgs(f, p, tol, n, ait) ==
    [f |-> f, a |-> None, b |-> None, x0 |-> p, tol |-> tol, max_iter |-> n,
     usar_aitken |-> ait]

\* Entry of the solvers that start from one point: x = x0, empty history.
EnterPoint(s, f, p, tol, n, ait) ==
    /\ solver' = s
    /\ args' = PointArgs(f, p, tol, n, ait)
    /\ historial' = ListaNueva(historial)
    /\ i' = 0
    /\ x' = IF s = "fixed_point_iteration" THEN None ELSE p
    /\ x_prev2' = None /\ x_prev1' = None
    /\ valores_aitken' = <<>>
    /\ xs' = IF s = "fixed_point_iteration" THEN <<p>> ELSE <<>>
    /\ Begin
    /\ UNCHANGED bracketVars
    /\ UNCHANGED tanteoVars
    /\ UNCHANGED valor_actual
    /\ evaluaciones' = SinEvaluar

CallPoint(s, funcs, aitkens) ==
    \/ /\ Primera
       /\ \E f \in funcs, p \in StartPoints, tol \in Tols, n \in 1..MaxIter,
             ait \in aitkens :
              EnterPoint(s, f, p, tol, n, ait)
    \/ /\ Repetida(s)
       /\ EnterPoint(s, args.f, args.x0, args.tol, args.max_iter,
                     args.usar_aitken)

\* if abs(fpx) < 1e-14: raise ValueError
EPS == Sci(1, -14)
\* Variant: only an exactly zero derivative is rejected.
DerivadaPequenaExact(vfp) == vfp = Zero

DerivadaPequena(vfp) == Less(Abs(vfp), EPS)

\* Variant: the correction added instead of subtracted.
NewtonUpdatePlus(vx, vf, vfp) == Add(vx, Div(vf, vfp))

\* x_nuevo = x - fx / fpx
NewtonUpdate(vx, vf, vfp) == Sub(vx, Div(vf, vfp))

\* Variant: <= in place of <.
NewtonStopLeq(err, vf, tol) == Leq(err, tol) \/ Leq(Abs(vf), tol)

\* Variant: the residual test dropped.
NewtonStopStepOnly(err, vf, tol) == Less(err, tol)

\* if error < tolerancia or abs(fx) < tolerancia
NewtonStop(err, vf, tol) == Less(err, tol) \/ Less(Abs(vf), tol)

\* metodos.metodo_newton_raphson (= newton_raphson_impl, lab_3-1)
CallNewtonRaphson == CallPoint("metodo_newton_raphson", NewtonFuncs, {FALSE})

StepNewtonRaphson ==
    /\ pc = "loop" /\ solver = "metodo_newton_raphson" /\ i < args.max_iter
    /\ i' = i + 1
    /\ LET fx  == F(args.f, x)
           fpx == DF(args.f, x)
       IN  IF DerivadaPequena(fpx)
           THEN /\ Raise("zero_derivative")
                /\ UNCHANGED <<x, historial>>
           ELSE LET x_nuevo == NewtonUpdate(x, fx, fpx)
                    error   == Abs(Sub(x_nuevo, x))
                IN  /\ historial' = Append(historial,
                           [iteracion |-> i + 1, x |-> x, fx |-> fx,
                            fpx |-> fpx, x_nuevo |-> x_nuevo,
                            error |-> error])
                    /\ IF NewtonStop(error, fx, args.tol)
                       THEN /\ Return(x_nuevo, i + 1, "converged")
                            /\ UNCHANGED x
                       ELSE /\ Continue
                            /\ x' = x_nuevo
    /\ UNCHANGED tanteoVars
    /\ UNCHANGED valor_actual
    /\ UNCHANGED <<anterior, solver, args, x_prev2, x_prev1, valores_aitken, xs>>
    /\ UNCHANGED bracketVars
    /\ evaluaciones' = Evaluado(1, 1)

\* return x, max_iter, historial
FinishNewtonRaphson ==
    /\ pc = "loop" /\ solver = "metodo_newton_raphson" /\ i = args.max_iter
    /\ Return(x, args.max_iter, "exhausted")
    /\ UNCHANGED tanteoVars
    /\ UNCHANGED valor_actual
    /\ UNCHANGED <<anterior, solver, args, i, historial>>
    /\ UNCHANGED bracketVars
    /\ UNCHANGED pointVars
    /\ UNCHANGED evaluaciones

\* metodos_num.metodo_newton_raphson: residual test first, then
\* "if valor_derivada == 0", then the step test.
ResidualStop(vf, tol) == Less(Abs(vf), tol)
DerivadaCero(vfp) == vfp = Zero
PasoStop(vnew, vx, tol) == Less(Abs(Sub(vnew, vx)), tol)

CallNewtonNum == CallPoint("newton_raphson_num", NewtonFuncs, {FALSE})

StepNewtonNum ==
    /\ pc = "loop" /\ solver = "newton_raphson_num" /\ i < args.max_iter
    /\ i' = i + 1
    /\ LET valor_funcion  == F(args.f, x)
           valor_derivada == DF(args.f, x)
           nuevo_valor    == NewtonUpdate(x, valor_funcion, valor_derivada)
       IN  /\ historial' = Append(historial,
                  [iteracion |-> i + 1, x |-> x, fx |-> valor_funcion,
                   fpx |-> valor_derivada])
           /\ IF ResidualStop(valor_funcion, args.tol)
              THEN /\ Return(x, i + 1, "converged")
                   /\ UNCHANGED x
              ELSE IF DerivadaCero(valor_derivada)
              THEN /\ Raise("zero_derivative")
                   /\ UNCHANGED x
              ELSE IF PasoStop(nuevo_valor, x, args.tol)
              THEN /\ Return(nuevo_valor, i + 1, "converged")
                   /\ UNCHANGED x
              ELSE /\ Continue
                   /\ x' = nuevo_valor
    /\ UNCHANGED tanteoVars
    /\ UNCHANGED valor_actual
    /\ UNCHANGED <<anterior, solver, args, x_prev2, x_prev1, valores_aitken, xs>>
    /\ UNCHANGED bracketVars
    /\ evaluaciones' = Evaluado(1, 1)

\* return valor_actual, maximo_iteraciones, historial
FinishNewtonNum ==
    /\ pc = "loop" /\ solver = "newton_raphson_num" /\ i = args.max_iter
    /\ Return(x, args.max_iter, "exhausted")
    /\ UNCHANGED tanteoVars
    /\ UNCHANGED valor_actual
    /\ UNCHANGED <<anterior, solver, args, i, historial>>
    /\ UNCHANGED bracketVars
    /\ UNCHANGED pointVars
    /\ UNCHANGED evaluaciones

(***************************************************************************)
(* Fixed-point iteration and Aitken acceleration                           *)
(***************************************************************************)
GFuncs == {"halfx", "xp1", "1mx", "one"}

\* denominador = x2 - 2*x1 + x0
AitkenDenominador(v0, v1, v2) == Add(Sub(v2, Mul(Int2Num(2), v1)), v0)

\* if abs(denominador) < 1e-14: return x2
\* return x0 - (x1 - x0)**2 / denominador
aceleracion_aitken(v0, v1, v2) ==
    LET denominador == AitkenDenominador(v0, v1, v2)
    IN  IF Less(Abs(denominador), EPS) THEN v2
        ELSE Sub(v0, Div(Mul(Sub(v1, v0), Sub(v1, v0)), denominador))

\* The largest float, 1.79769313e308, to nine digits.
FloatMax == Sci(179769313, 300)

\* The float operator ** raises OverflowError on a result out of range.
Desborda(v) == Less(FloatMax, Abs(v))

\* aceleracion_aitken called on its own.  The triples tried: small integers,
\* values around the threshold 1e-14, and one of large magnitude.
AitkenTriples ==
    {<<Int2Num(p), Int2Num(q), Int2Num(r)>> : p, q, r \in 0..2}
        \cup {<<Zero, Sci(1, -15), Zero>>, <<Zero, Zero, Sci(1, -15)>>,
              <<Zero, Zero, Sci(1, -14)>>, <<Zero, Sci(1, -14), Zero>>,
              <<Zero, Sci(1, 200), Zero>>}

CallAceleracionAitken ==
    \E t \in AitkenTriples :
        /\ Primera
        /\ solver' = "aceleracion_aitken"
        /\ x_prev2' = t[1] /\ x_prev1' = t[2] /\ x' = t[3]
        /\ IF /\ ~ Less(Abs(AitkenDenominador(t[1], t[2], t[3])), EPS)
              /\ Desborda(Mul(Sub(t[2], t[1]), Sub(t[2], t[1])))
           THEN Raise("overflow")
           ELSE Return(aceleracion_aitken(t[1], t[2], t[3]), 0, "value")
        /\ UNCHANGED <<args, i, valores_aitken, xs, historial>>
        /\ UNCHANGED bracketVars
        /\ UNCHANGED tanteoVars
        /\ UNCHANGED valor_actual
        /\ evaluaciones' = SinEvaluar

\* Variant: <= in place of <.
PuntoFijoStopLeq(err, tol) == Leq(err, tol)

\* if error < tolerancia
PuntoFijoStop(err, tol) == Less(err, tol)

\* metodos.metodo_punto_fijo: Aitken on (x_prev2, x_prev1, x) from the
\* third iteration on.
CallPuntoFijo == CallPoint("metodo_punto_fijo", GFuncs, BOOLEAN)

StepPuntoFijo ==
    /\ pc = "loop" /\ solver = "metodo_punto_fijo" /\ i < args.max_iter
    /\ i' = i + 1
    /\ LET gx          == F(args.f, x)
           usa         == args.usar_aitken /\ i >= 2
           x_aitken    == IF usa THEN aceleracion_aitken(x_prev2, x_prev1, x)
                          ELSE None
           error       == IF usa THEN Abs(Sub(x_aitken, x))
                          ELSE Abs(Sub(gx, x))
           x_siguiente == IF usa THEN x_aitken ELSE gx
       IN  /\ historial' = Append(historial,
                  [iteracion |-> i + 1, x |-> x, gx |-> gx,
                   x_aitken |-> x_aitken, error |-> error,
                   x_siguiente |-> x_siguiente])
           /\ IF PuntoFijoStop(error, args.tol)
              THEN /\ Return(x_siguiente, i + 1, "converged")
                   /\ UNCHANGED <<x, x_prev2, x_prev1>>
              ELSE /\ Continue
                   /\ x_prev2' = x_prev1
                   /\ x_prev1' = x
                   /\ x' = x_siguiente
    /\ UNCHANGED tanteoVars
    /\ UNCHANGED valor_actual
    /\ UNCHANGED <<anterior, solver, args, valores_aitken, xs>>
    /\ UNCHANGED bracketVars
    /\ evaluaciones' = Evaluado(1, 0)

\* return x, max_iter, historial
FinishPuntoFijo ==
    /\ pc = "loop" /\ solver = "metodo_punto_fijo" /\ i = args.max_iter
    /\ Return(x, args.max_iter, "exhausted")
    /\ UNCHANGED tanteoVars
    /\ UNCHANGED valor_actual
    /\ UNCHANGED <<anterior, solver, args, i, historial>>
    /\ UNCHANGED bracketVars
    /\ UNCHANGED pointVars
    /\ UNCHANGED evaluaciones

\* punto_fijo_impl.metodo_punto_fijo: collect three values, accelerate,
\* empty the buffer.
CallPuntoFijoImpl == CallPoint("punto_fijo_impl", GFuncs, BOOLEAN)

\* Variant: the buffer slides, dropping its oldest value.
Deslizar(buf) == Tail(buf)

\* valores_aitken = []  (restart for the next application of Aitken)
Reiniciar(buf) == <<>>

StepPuntoFijoImpl ==
    /\ pc = "loop" /\ solver = "punto_fijo_impl" /\ i < args.max_iter
    /\ i' = i + 1
    /\ LET gx          == F(args.f, x)
           buf         == IF args.usar_aitken THEN Append(valores_aitken, x)
                          ELSE valores_aitken
           aplicar     == args.usar_aitken /\ Len(buf) = 3
           x_aitken    == IF aplicar
                          THEN aceleracion_aitken(buf[1], buf[2], buf[3])
                          ELSE None
           error       == IF aplicar THEN Abs(Sub(x_aitken, x))
                          ELSE Abs(Sub(gx, x))
           x_siguiente == IF aplicar THEN x_aitken ELSE gx
       IN  /\ valores_aitken' = IF aplicar THEN Reiniciar(buf) ELSE buf
           /\ historial' = Append(historial,
                  [iteracion |-> i + 1, x |-> x, gx |-> gx,
                   x_aitken |-> x_aitken, error |-> error,
                   x_siguiente |-> x_siguiente])
           /\ IF PuntoFijoStop(error, args.tol)
              THEN /\ Return(x_siguiente, i + 1, "converged")
                   /\ UNCHANGED x
              ELSE /\ Continue
                   /\ x' = x_siguiente
    /\ UNCHANGED tanteoVars
    /\ UNCHANGED valor_actual
    /\ UNCHANGED <<anterior, solver, args, x_prev2, x_prev1, xs>>
    /\ UNCHANGED bracketVars
    /\ evaluaciones' = Evaluado(1, 0)

\* return x, max_iter, historial
FinishPuntoFijoImpl ==
    /\ pc = "loop" /\ solver = "punto_fijo_impl" /\ i = args.max_iter
    /\ Return(x, args.max_iter, "exhausted")
    /\ UNCHANGED tanteoVars
    /\ UNCHANGED valor_actual
    /\ UNCHANGED <<anterior, solver, args, i, historial>>
    /\ UNCHANGED bracketVars
    /\ UNCHANGED pointVars
    /\ UNCHANGED evaluaciones

\* metodos_num.fixed_point_iteration: the history is xs; Aitken is applied
\* once, to the last three values, when returning.
\* if aitken and len(xs) >= 3 and abs(denom) > 1e-14: return x_hat
UltimoAitken(seq, ait) ==
    LET m == Len(seq)
    IN  IF ait /\ m >= 3
           /\ Less(EPS, Abs(AitkenDenominador(seq[m - 2], seq[m - 1], seq[m])))
        THEN Sub(seq[m - 2],
                 Div(Mul(Sub(seq[m - 1], seq[m - 2]),
                         Sub(seq[m - 1], seq[m - 2])),
                     AitkenDenominador(seq[m - 2], seq[m - 1], seq[m])))
        ELSE seq[m]

CallFixedPoint == CallPoint("fixed_point_iteration", GFuncs, BOOLEAN)

StepFixedPoint ==
    /\ pc = "loop" /\ solver = "fixed_point_iteration" /\ i < args.max_iter
    /\ i' = i + 1
    /\ LET x_next == F(args.f, xs[Len(xs)])
           nxs    == Append(xs, x_next)
       IN  /\ xs' = nxs
           /\ IF PuntoFijoStop(Abs(Sub(x_next, xs[Len(xs)])), args.tol)
              THEN Return(UltimoAitken(nxs, args.usar_aitken), i + 1,
                          "converged")
              ELSE Continue
    /\ UNCHANGED tanteoVars
    /\ UNCHANGED valor_actual
    /\ UNCHANGED <<anterior, solver, args, x, x_prev2, x_prev1, valores_aitken,
                   historial>>
    /\ UNCHANGED bracketVars
    /\ evaluaciones' = Evaluado(1, 0)

FinishFixedPoint ==
    /\ pc = "loop" /\ solver = "fixed_point_iteration" /\ i = args.max_iter
    /\ Return(UltimoAitken(xs, args.usar_aitken), args.max_iter, "exhausted")
    /\ UNCHANGED tanteoVars
    /\ UNCHANGED valor_actual
    /\ UNCHANGED <<anterior, solver, args, i, historial>>
    /\ UNCHANGED bracketVars
    /\ UNCHANGED pointVars
    /\ UNCHANGED evaluaciones

(***************************************************************************)
(* metodo_tanteo: the grid search for sign changes                         *)
(***************************************************************************)
TanteoFuncs == {"2xp1", "x2m2", "xm1", "x2m1"}
Mins == {Int2Num(-2), Int2Num(-1), Int2Num(0)}
Maxs == {Sci(-1, -13), Int2Num(0), Int2Num(1), Frac(3, 2), Int2Num(2)}
Pasos == {Frac(1, 2), Int2Num(1)}
\* The point at which func raises; None for a total func.
Fallas == {None, Int2Num(-1), Int2Num(0)}

TanteoArgs(f, x_min, x_max, paso, falla) ==
    [f |-> f, a |-> None, b |-> None, x0 |-> None, tol |-> None,
     max_iter |-> 0, usar_aitken |-> FALSE,
     x_min |-> x_min, x_max |-> x_max, paso |-> paso, falla |-> falla]

\* tanteo.py and newton_raphson_impl.py: while x <= x_max
\* punto_fijo_impl.py:                   while x <= x_max + 1e-12
TanteoSolvers == {"metodo_tanteo", "tanteo_punto_fijo_impl"}
Holgura == Sci(1, -12)

\* u <= v + Holgura, without aligning Holgura to a far larger v: when u > v
\* and the two do not share a sign, u - v = |u| + |v| is within Holgura only
\* if each term is.
DentroDeHolgura(u, v) ==
    IF Leq(u, v) THEN TRUE
    ELSE IF Sign(u) = Sign(v) THEN Leq(Sub(u, v), Holgura)
    ELSE /\ Leq(Abs(u), Holgura)
         /\ Leq(Abs(v), Holgura)
         /\ Leq(Add(Abs(u), Abs(v)), Holgura)

\* The loop condition at the point u.
EnRango(u) ==
    IF solver = "tanteo_punto_fijo_impl" THEN DentroDeHolgura(u, args.x_max)
    ELSE Leq(u, args.x_max)

SigueEnRango == EnRango(x)

\* if f_anterior * f_actual < 0
CambioDeSigno(vprev, vact) == Less(Mul(vprev, vact), Zero)

\* intervalos = []; x = x_min
\* try: f_anterior = func(x)  except: return intervalos
\* x += paso
CallTanteo ==
    \E s \in TanteoSolvers, f \in TanteoFuncs, x_min \in Mins, x_max \in Maxs,
       paso \in Pasos, falla \in Fallas :
        /\ Primera
        /\ solver' = s
        /\ args' = TanteoArgs(f, x_min, x_max, paso, falla)
        /\ intervalos' = <<>>
        /\ result' = NoResult
        /\ IF x_min = falla
           THEN /\ pc' = "returned"
                /\ outcome' = "intervalos"
                /\ f_anterior' = None
                /\ x' = x_min
           ELSE /\ pc' = "loop"
                /\ outcome' = "none"
                /\ f_anterior' = F(f, x_min)
                /\ x' = Add(x_min, paso)
        /\ UNCHANGED <<i, x_prev2, x_prev1, valores_aitken, xs, historial>>
        /\ UNCHANGED bracketVars
        /\ UNCHANGED valor_actual
        /\ evaluaciones' = SinEvaluar

\* One turn of the while loop; when func raises at x the except clause
\* moves on to the next point and keeps f_anterior.
StepTanteo ==
    /\ pc = "loop" /\ solver \in TanteoSolvers
    /\ SigueEnRango
    /\ IF x = args.falla
       THEN UNCHANGED <<intervalos, f_anterior>>
       ELSE /\ intervalos' = IF CambioDeSigno(f_anterior, F(args.f, x))
                             THEN Append(intervalos, <<Sub(x, args.paso), x>>)
                             ELSE intervalos
            /\ f_anterior' = F(args.f, x)
    /\ x' = Add(x, args.paso)
    /\ Continue
    /\ UNCHANGED <<anterior, solver, args, i, x_prev2, x_prev1, valores_aitken,
                   xs, historial, valor_actual>>
    /\ UNCHANGED bracketVars
    /\ evaluaciones' = Evaluado(1, 0)

\* return intervalos
FinishTanteo ==
    /\ pc = "loop" /\ solver \in TanteoSolvers
    /\ ~ SigueEnRango
    /\ pc' = "returned"
    /\ outcome' = "intervalos"
    /\ UNCHANGED <<anterior, solver, args, i, result, historial>>
    /\ UNCHANGED bracketVars
    /\ UNCHANGED pointVars
    /\ UNCHANGED tanteoVars
    /\ UNCHANGED valor_actual
    /\ UNCHANGED evaluaciones

(***************************************************************************)
(* probar_metodo_newton_raphson: metodo_newton_raphson on x^3 - x - 1.     *)
(* The iterates are exact fractions whose digits triple with each step, so *)
(* numerator and denominator are integers of any length: a sign and a      *)
(* magnitude, the magnitude a sequence of digits to the base Base, least   *)
(* significant first, with no leading zero digit.                          *)
(***************************************************************************)
Base == 10000

RECURSIVE MagOf(_)
MagOf(k) == IF k = 0 THEN <<>> ELSE <<k % Base>> \o MagOf(k \div Base)

RECURSIVE MagAdd(_, _, _)
MagAdd(u, v, carry) ==
    IF u = <<>> /\ v = <<>> THEN MagOf(carry)
    ELSE IF u = <<>> THEN MagAdd(<<0>>, v, carry)
    ELSE IF v = <<>> THEN MagAdd(u, <<0>>, carry)
    ELSE <<(Head(u) + Head(v) + carry) % Base>>
             \o MagAdd(Tail(u), Tail(v), (Head(u) + Head(v) + carry) \div Base)

RECURSIVE MagTrim(_)
MagTrim(u) ==
    IF u = <<>> THEN <<>>
    ELSE IF u[Len(u)] = 0 THEN MagTrim(SubSeq(u, 1, Len(u) - 1))
    ELSE u

\* u - v - borrow digit by digit, for u >= v.
RECURSIVE MagSubDigits(_, _, _)
MagSubDigits(u, v, borrow) ==
    IF u = <<>> THEN <<>>
    ELSE IF v = <<>> THEN MagSubDigits(u, <<0>>, borrow)
    ELSE <<(Head(u) - Head(v) - borrow + Base) % Base>>
             \o MagSubDigits(Tail(u), Tail(v),
                             IF Head(u) - Head(v) - borrow < 0 THEN 1 ELSE 0)

MagSub(u, v) == MagTrim(MagSubDigits(u, v, 0))

RECURSIVE MagLessFrom(_, _, _)
MagLessFrom(u, v, k) ==
    IF k = 0 THEN FALSE
    ELSE IF u[k] # v[k] THEN u[k] < v[k]
    ELSE MagLessFrom(u, v, k - 1)

MagLess(u, v) ==
    IF Len(u) # Len(v) THEN Len(u) < Len(v) ELSE MagLessFrom(u, v, Len(u))

\* u * k + carry for one digit k > 0.
RECURSIVE MagScale(_, _, _)
MagScale(u, k, carry) ==
    IF u = <<>> THEN MagOf(carry)
    ELSE <<(Head(u) * k + carry) % Base>>
             \o MagScale(Tail(u), k, (Head(u) * k + carry) \div Base)

MagShift(u) == IF u = <<>> THEN <<>> ELSE <<0>> \o u

RECURSIVE MagMul(_, _)
MagMul(u, v) ==
    IF u = <<>> \/ v = <<>> THEN <<>>
    ELSE MagAdd(IF Head(u) = 0 THEN <<>> ELSE MagScale(v, Head(u), 0),
                MagShift(MagMul(Tail(u), v)), 0)

ZOf(k) ==
    [s |-> IF k < 0 THEN -1 ELSE IF k = 0 THEN 0 ELSE 1, m |-> MagOf(IAbs(k))]
ZNeg(u) == [s |-> -u.s, m |-> u.m]
ZMul(u, v) == [s |-> u.s * v.s, m |-> MagMul(u.m, v.m)]
ZAdd(u, v) ==
    IF u.s = 0 THEN v
    ELSE IF v.s = 0 THEN u
    ELSE IF u.s = v.s THEN [s |-> u.s, m |-> MagAdd(u.m, v.m, 0)]
    ELSE IF u.m = v.m THEN ZOf(0)
    ELSE IF MagLess(u.m, v.m) THEN [s |-> v.s, m |-> MagSub(v.m, u.m)]
    ELSE [s |-> u.s, m |-> MagSub(u.m, v.m)]
ZSub(u, v) == ZAdd(u, ZNeg(v))

\* The fraction n/d with d > 0.
Fraccion(n, d) == IF d.s < 0 THEN [n |-> ZNeg(n), d |-> ZNeg(d)]
                  ELSE [n |-> n, d |-> d]

\* An exact number (n/d) * 10^e as a fraction.
FraccionDe(r) ==
    IF r.e >= 0 THEN Fraccion(ZOf(r.n * Pow10(r.e)), ZOf(r.d))
    ELSE Fraccion(ZOf(r.n), ZOf(r.d * Pow10(-r.e)))

\* |p| < |q| for fractions.
FraccionMenor(p, q) == MagLess(MagMul(p.n.m, q.d.m), MagMul(q.n.m, p.d.m))

ZCubo(u) == ZMul(u, ZMul(u, u))

\* expresion = x**3 - x - 1 at n/d is Cubica(n, d) / d^3.
\* Variant: x**3 - x - 2.
CubicaMenosDos(n, d) ==
    ZSub(ZSub(ZCubo(n), ZMul(n, ZMul(d, d))), ZMul(ZOf(2), ZCubo(d)))

Cubica(n, d) == ZSub(ZSub(ZCubo(n), ZMul(n, ZMul(d, d))), ZCubo(d))

\* expresion.diff(variable) = 3*x**2 - 1 at n/d is DerivadaCubica(n, d) / d^2.
DerivadaCubica(n, d) == ZSub(ZMul(ZOf(3), ZMul(n, n)), ZMul(d, d))

\* valor_funcion and valor_derivada at v, as fractions.
ValorFuncion(v) == Fraccion(Cubica(v.n, v.d), ZCubo(v.d))
ValorDerivada(v) == Fraccion(DerivadaCubica(v.n, v.d), ZMul(v.d, v.d))

\* nuevo_valor = valor_actual - valor_funcion / valor_derivada:
\* n/d - (c/d^3) / (p/d^2) = (n*p - c) / (d*p).
NuevoValor(v) ==
    Fraccion(ZSub(ZMul(v.n, DerivadaCubica(v.n, v.d)), Cubica(v.n, v.d)),
             ZMul(v.d, DerivadaCubica(v.n, v.d)))

\* valor_funcion / valor_derivada = c / (d*p)
Paso(v) == Fraccion(Cubica(v.n, v.d), ZMul(v.d, DerivadaCubica(v.n, v.d)))

\* maximo_iteraciones=100, the default the test leaves in place
MaximoIteraciones == 100
\* A call that is cut short, to reach the return after the loop.
MaxIterCorto == 2
Maximos == {MaxIterCorto, MaximoIteraciones}
ValoresIniciales == {Int2Num(1), Int2Num(2)}
Tolerancias == {Sci(1, -6), Sci(1, -3)}

CallProbarNewton ==
    \E p \in ValoresIniciales, tol \in Tolerancias, n \in Maximos :
        /\ Primera
        /\ solver' = "probar_metodo_newton_raphson"
        /\ args' = PointArgs("x3mxm1", p, tol, n, FALSE)
        /\ valor_actual' = FraccionDe(p)
        /\ i' = 0
        /\ historial' = ListaNueva(historial)
        /\ Begin
        /\ UNCHANGED bracketVars
        /\ UNCHANGED pointVars
        /\ UNCHANGED tanteoVars
        /\ evaluaciones' = SinEvaluar

StepProbarNewton ==
    /\ pc = "loop" /\ solver = "probar_metodo_newton_raphson"
    /\ i < args.max_iter
    /\ i' = i + 1
    /\ historial' = Append(historial,
           [iteracion |-> i + 1, x |-> valor_actual,
            fx |-> ValorFuncion(valor_actual),
            fpx |-> ValorDerivada(valor_actual)])
    /\ IF FraccionMenor(ValorFuncion(valor_actual), FraccionDe(args.tol))
       THEN /\ Return(valor_actual, i + 1, "converged")
            /\ UNCHANGED valor_actual
       ELSE IF ValorDerivada(valor_actual).n.s = 0
       THEN /\ Raise("zero_derivative")
            /\ UNCHANGED valor_actual
       ELSE IF FraccionMenor(Paso(valor_actual), FraccionDe(args.tol))
       THEN /\ Return(NuevoValor(valor_actual), i + 1, "converged")
            /\ UNCHANGED valor_actual
       ELSE /\ Continue
            /\ valor_actual' = NuevoValor(valor_actual)
    /\ UNCHANGED <<anterior, solver, args>>
    /\ UNCHANGED bracketVars
    /\ UNCHANGED pointVars
    /\ UNCHANGED tanteoVars
    /\ evaluaciones' = Evaluado(1, 1)

\* return valor_actual, maximo_iteraciones, historial
FinishProbarNewton ==
    /\ pc = "loop" /\ solver = "probar_metodo_newton_raphson"
    /\ i = args.max_iter
    /\ Return(valor_actual, args.max_iter, "exhausted")
    /\ UNCHANGED <<anterior, solver, args, i, historial, valor_actual>>
    /\ UNCHANGED bracketVars
    /\ UNCHANGED pointVars
    /\ UNCHANGED tanteoVars
    /\ UNCHANGED evaluaciones

Next ==
    \/ CallBisection \/ StepBisection \/ FinishBisection
    \/ CallIntervaloMedio \/ StepIntervaloMedio \/ FinishIntervaloMedio
    \/ CallRegulaFalsi \/ StepRegulaFalsi \/ FinishRegulaFalsi
    \/ CallInterpolacionLineal \/ StepInterpolacionLineal
    \/ FinishInterpolacionLineal
    \/ CallNewtonRaphson \/ StepNewtonRaphson \/ FinishNewtonRaphson
    \/ CallNewtonNum \/ StepNewtonNum \/ FinishNewtonNum
    \/ CallPuntoFijo \/ StepPuntoFijo \/ FinishPuntoFijo
    \/ CallPuntoFijoImpl \/ StepPuntoFijoImpl \/ FinishPuntoFijoImpl
    \/ CallFixedPoint \/ StepFixedPoint \/ FinishFixedPoint
    \/ CallAceleracionAitken
    \/ CallTanteo \/ StepTanteo \/ FinishTanteo
    \/ CallProbarNewton \/ StepProbarNewton \/ FinishProbarNewton

Spec == Init /\ [][Next]_vars

(***************************************************************************)
(* Properties                                                              *)
(***************************************************************************)
IsBisection == solver \in {"bisection", "metodo_intervalo_medio"}
IsRegulaFalsi == solver \in {"regula_falsi", "metodo_interpolacion_lineal"}
IsBracketSolver == IsBisection \/ IsRegulaFalsi
IsNewton == solver \in {"metodo_newton_raphson", "newton_raphson_num"}
Called == pc # "idle"
Ended == pc \in {"returned", "raised"}

\* f(u) * f(v) for the function of the running call.
Product(u, v) == Mul(F(args.f, u), F(args.f, v))
EnteredOpposite == Less(Product(args.a, args.b), Zero)

\* C1: bisection and regula falsi entered with f(a)*f(b) < 0 keep
\* f(a)*f(b) < 0 for the bracket every iteration starts with (the one each
\* history record holds) and for the bracket left by every endpoint update.
C1_BracketInvariant ==
    (IsBracketSolver /\ Called /\ EnteredOpposite) =>
        /\ pc # "raised"
        /\ Less(Product(a, b), Zero)
        /\ \A k \in 1..Len(historial) :
               Less(Product(historial[k].a, historial[k].b), Zero)

\* Both endpoints have been replaced at least once.
C1_Witness ==
    /\ IsBracketSolver /\ pc = "loop" /\ EnteredOpposite
    /\ a # args.a /\ b # args.b
    /\ solver \in {"regula_falsi", "bisection"}

\* C2: with f(a)*f(b) > 0 the call raises the invalid-bracket error before
\* any iteration: no history record, no result.
C2_InvalidBracketRaises ==
    (IsBracketSolver /\ Called /\ Less(Zero, Product(args.a, args.b))) =>
        /\ pc = "raised"
        /\ outcome = "invalid_bracket"
        /\ i = 0
        /\ historial = <<>>
        /\ result = NoResult

C2_Witness ==
    /\ IsBracketSolver /\ pc = "raised" /\ outcome = "invalid_bracket"
    /\ Less(F(args.f, args.a), Zero) /\ Less(F(args.f, args.b), Zero)

\* C3: every entry bracket without f(a)*f(b) < 0, f(a)*f(b) = 0 included,
\* is rejected with the invalid-bracket error and runs no iteration.
C3_ZeroProductRejected ==
    (IsBracketSolver /\ Called /\ ~ EnteredOpposite) =>
        /\ pc = "raised"
        /\ outcome = "invalid_bracket"
        /\ historial = <<>>

\* C4: in bisection the width b - a of the bracket left by iteration k+1 is
\* exactly half the width of the bracket left by iteration k.
Width(r) == Sub(r.b, r.a)
C4_WidthHalves ==
    IsBisection =>
        /\ \A k \in 1..(Len(historial) - 1) :
               Width(historial[k + 1]) = Half(Width(historial[k]))
        /\ (pc = "loop" /\ historial # <<>>) =>
               Sub(b, a) = Half(Width(historial[Len(historial)]))

\* Three consecutive halvings, with both endpoints replaced.
C4_Witness ==
    /\ IsBisection /\ pc = "loop" /\ Len(historial) >= 3
    /\ a # args.a /\ b # args.b

\* 2^k * v
RECURSIVE Pow2Times(_, _)
Pow2Times(k, v) == IF k = 0 THEN v ELSE Pow2Times(k - 1, Mul(Int2Num(2), v))

InitialWidth == Sub(args.b, args.a)
BisectionEntered ==
    IsBisection /\ Called /\ EnteredOpposite /\ Less(args.a, args.b)

\* C5 as stated: bisection on a valid bracket [a0, b0], a0 < b0, never
\* runs more than ceil(log2((b0 - a0) / tol)) iterations, i.e. iteration i
\* is run only if 2^(i-1) < (b0 - a0) / tol.
C5_CeilLog2Bound ==
    (BisectionEntered /\ i >= 1) =>
        Less(Pow2Times(i - 1, args.tol), InitialWidth)

\* C5 amended: bisection (half-width test) runs at most
\* max(1, floor(log2((b0 - a0) / tol)) + 1) iterations, one more than the
\* stated bound when (b0 - a0) / tol is an exact power of two;
\* metodo_intervalo_medio (width test) runs at most
\* max(1, floor(log2((b0 - a0) / tol)) + 2).
C5_FloorLog2Bound ==
    (BisectionEntered /\ i >= 2) =>
        Leq(Pow2Times(IF solver = "bisection" THEN i - 1 ELSE i - 2, args.tol),
            InitialWidth)

\* (b0 - a0) / tol = 2^(i-1): the amended bound is attained and the stated
\* one exceeded.
C5_Witness ==
    /\ BisectionEntered /\ solver = "bisection"
    /\ pc = "returned" /\ outcome = "converged"
    /\ result.iters >= 2
    /\ Pow2Times(result.iters - 1, args.tol) = InitialWidth

\* The single step of a call with max_iter = 1 was completed and met no
\* stopping test.
Missed(err, tol) == Leq(tol, err)
OneStepMissed ==
    /\ args.max_iter = 1 /\ Ended
    /\ IF solver = "fixed_point_iteration"
       THEN Len(xs) = 2 /\ Missed(Abs(Sub(xs[2], xs[1])), args.tol)
       ELSE /\ Len(historial) = 1
            /\ LET r == historial[1]
               IN  CASE solver = "bisection" ->
                          /\ Missed(Abs(r.fc), args.tol)
                          /\ Missed(Half(Sub(r.b, r.a)), args.tol)
                     [] solver = "metodo_intervalo_medio" ->
                          /\ Missed(Abs(r.fc), args.tol)
                          /\ Missed(Abs(Sub(r.b, r.a)), args.tol)
                     [] solver = "regula_falsi" ->
                          /\ Missed(Abs(r.fc), args.tol)
                          /\ Missed(Abs(Sub(r.c, r.b)), args.tol)
                     [] solver = "metodo_interpolacion_lineal" ->
                          /\ Missed(Abs(r.fc), args.tol)
                          /\ Missed(Abs(Sub(r.b, r.a)), args.tol)
                     [] solver = "metodo_newton_raphson" ->
                          /\ Missed(Abs(r.fx), args.tol)
                          /\ Missed(Abs(Sub(r.x_nuevo, r.x)), args.tol)
                     [] solver = "newton_raphson_num" ->
                          /\ Missed(Abs(r.fx), args.tol)
                          /\ r.fpx # Zero
                          /\ Missed(Abs(Div(r.fx, r.fpx)), args.tol)
                     [] solver \in {"metodo_punto_fijo", "punto_fijo_impl"} ->
                          Missed(Abs(Sub(r.gx, r.x)), args.tol)

C7_ExhaustionTellsApart ==
    (pc = "returned" /\ args.max_iter >= 1) =>
        ((outcome = "exhausted") <=> (result.iters = args.max_iter))

\* The derivative the solver saw at the x of history record r.
DerivAt(r) == DF(args.f, r.x)

NewtonMet(r) ==
    \/ Less(Abs(F(args.f, r.x)), args.tol)
    \/ /\ DerivAt(r) # Zero
       /\ Less(Abs(Div(F(args.f, r.x), DerivAt(r))), args.tol)
NewtonNext(r) == Sub(r.x, Div(F(args.f, r.x), DerivAt(r)))

\* C9 as stated: every Newton-Raphson variant returns at the first
\* iteration k at which |x_next - x| < tol or |f(x)| < tol, with
\* iterations_used = k and the root estimate x_next = x - f(x)/f'(x).
C9_ReturnsNextAtFirstHit ==
    (IsNewton /\ pc = "returned") =>
        LET n == Len(historial)
        IN  /\ \A k \in 1..(n - 1) : ~ NewtonMet(historial[k])
            /\ outcome = "converged" =>
                   /\ NewtonMet(historial[n])
                   /\ result.iters = n
                   /\ result.root = NewtonNext(historial[n])
            /\ outcome = "exhausted" => ~ NewtonMet(historial[n])

\* C9 amended: as stated for metodos.metodo_newton_raphson (and its copies);
\* metodos_num.metodo_newton_raphson returns at the same iteration, but its
\* root estimate is x itself, not x_next, when |f(x)| < tol is what fired.
C9_ReturnsAtFirstHit ==
    (IsNewton /\ pc = "returned") =>
        LET n == Len(historial)
            r == historial[n]
        IN  /\ \A k \in 1..(n - 1) : ~ NewtonMet(historial[k])
            /\ outcome = "converged" =>
                   /\ NewtonMet(r)
                   /\ result.iters = n
                   /\ result.root =
                          IF solver = "newton_raphson_num"
                             /\ Less(Abs(F(args.f, r.x)), args.tol)
                          THEN r.x
                          ELSE NewtonNext(r)
            /\ outcome = "exhausted" => ~ NewtonMet(r)

\* Returned on the step test alone, after an iteration that met neither.
C9_Witness ==
    /\ solver = "metodo_newton_raphson" /\ pc = "returned"
    /\ outcome = "converged" /\ result.iters >= 2
    /\ ~ Less(Abs(historial[result.iters].fx), args.tol)
    /\ result.root # historial[result.iters].x

\* The iterate of the cycle 0, 1, 0, 1, ... after k steps.
CycleIterate(k) == IF k % 2 = 0 THEN Int2Num(0) ELSE Int2Num(1)
OnCycle == IsNewton /\ Called /\ args.f = "x3m2xp2" /\ args.x0 = Int2Num(0)

\* C10: Newton-Raphson on f(x) = x^3 - 2x + 2 from x0 = 0 (tol <= 1) cycles
\* 0, 1, 0, 1, ... undetected: it raises nothing, runs exactly max_iter
\* iterations and returns the last computed iterate with
\* iterations_used = max_iter.
C10_CycleExhausts ==
    OnCycle =>
        /\ pc # "raised"
        /\ pc = "loop" => x = CycleIterate(i)
        /\ pc = "returned" =>
               /\ outcome = "exhausted"
               /\ i = args.max_iter
               /\ Len(historial) = args.max_iter
               /\ result.iters = args.max_iter
               /\ result.root = CycleIterate(args.max_iter)

\* Two full turns of the cycle, then the return.
C10_Witness ==
    /\ OnCycle /\ pc = "returned" /\ result.iters >= 4
    /\ solver = "metodo_newton_raphson"

\* C11: aceleracion_aitken(x0, x1, x2) raises for no triple; it returns x2
\* when |x2 - 2*x1 + x0| < 1e-14 and x0 - (x1 - x0)^2 / (x2 - 2*x1 + x0)
\* otherwise.
C11_AitkenTotal ==
    (solver = "aceleracion_aitken" /\ Called) =>
        /\ pc = "returned"
        /\ result.root =
               IF Less(Abs(AitkenDenominador(x_prev2, x_prev1, x)), EPS)
               THEN x
               ELSE Sub(x_prev2,
                        Div(Mul(Sub(x_prev1, x_prev2), Sub(x_prev1, x_prev2)),
                            AitkenDenominador(x_prev2, x_prev1, x)))

FixedPointSolvers ==
    {"metodo_punto_fijo", "punto_fijo_impl", "fixed_point_iteration"}
IsFixedPoint == solver \in FixedPointSolvers

\* The g of the input set that are contractions.
Contractions == {"halfx", "one"}

\* iterations_used of the run without Aitken from v after k iterations:
\* the first k + 1 with |g(v) - v| < tol, else n.
RECURSIVE PlainIters(_, _, _, _, _)
PlainIters(f, v, k, tol, n) ==
    IF k = n THEN n
    ELSE IF Less(Abs(Sub(F(f, v), v)), tol) THEN k + 1
    ELSE PlainIters(f, F(f, v), k + 1, tol, n)

\* C12: on a contraction g, the run with Aitken returns an iteration count
\* no larger than the run without Aitken on the same g, x0, tol, max_iter.
C12_AitkenNoWorse ==
    (IsFixedPoint /\ pc = "returned" /\ args.usar_aitken
         /\ args.f \in Contractions) =>
        result.iters <= PlainIters(args.f, args.x0, 0, args.tol, args.max_iter)

\* g applied k times to v.
RECURSIVE GIter(_, _, _)
GIter(f, v, k) == IF k = 0 THEN v ELSE F(f, GIter(f, v, k - 1))

\* |g(x) - x| < tol at the x of iteration k of the plain run.
PlainMet(k) ==
    Less(Abs(Sub(GIter(args.f, args.x0, k), GIter(args.f, args.x0, k - 1))),
         args.tol)

\* Iterations recorded so far (fixed_point_iteration keeps x0 in xs).
Recorded ==
    IF solver = "fixed_point_iteration" THEN Len(xs) - 1 ELSE Len(historial)

\* C13: without Aitken, the x of iteration k is g applied k-1 times to x0;
\* the run returns g(x) with iterations_used = k at the first k with
\* |g(x) - x| < tol, and on exhaustion g applied max_iter times to x0 with
\* iterations_used = max_iter.
C13_PlainIteration ==
    (IsFixedPoint /\ Called /\ ~ args.usar_aitken) =>
        /\ \A k \in 1..Recorded :
               IF solver = "fixed_point_iteration"
               THEN /\ xs[k] = GIter(args.f, args.x0, k - 1)
                    /\ xs[k + 1] = GIter(args.f, args.x0, k)
               ELSE /\ historial[k].x = GIter(args.f, args.x0, k - 1)
                    /\ historial[k].gx = GIter(args.f, args.x0, k)
        /\ \A k \in 1..(Recorded - 1) : ~ PlainMet(k)
        /\ pc = "loop" => (Recorded = i /\ (i >= 1 => ~ PlainMet(i)))
        /\ pc # "raised"
        /\ (pc = "returned" /\ outcome = "converged") =>
               /\ PlainMet(Recorded)
               /\ result.iters = Recorded
               /\ result.root = GIter(args.f, args.x0, Recorded)
        /\ (pc = "returned" /\ outcome = "exhausted") =>
               /\ ~ PlainMet(Recorded)
               /\ Recorded = args.max_iter
               /\ result.iters = args.max_iter
               /\ result.root = GIter(args.f, args.x0, args.max_iter)
        /\ pc = "returned" => outcome \in {"converged", "exhausted"}

\* A plain run that converged after iterations that did not.
C13_Witness ==
    /\ IsFixedPoint /\ ~ args.usar_aitken
    /\ pc = "returned" /\ outcome = "converged" /\ result.iters >= 3
    /\ solver = "fixed_point_iteration"

C15_FlatSecantFallback ==
    (IsRegulaFalsi /\ Called
         /\ F(args.f, args.a) = Zero /\ F(args.f, args.b) = Zero) =>
        /\ pc # "raised"
        /\ outcome # "zero_division"

\* An iterative solver has returned (by convergence or by exhaustion).
SolverReturned == pc = "returned" /\ args.max_iter >= 1

\* C16 as stated: for every solver the returned history holds exactly
\* iterations_used records, indexed 1, 2, ..., iterations_used in order.
C16_HistoryPerIteration ==
    SolverReturned =>
        /\ Len(Devuelto.history) = result.iters
        /\ \A k \in 1..Len(Devuelto.history) :
               /\ solver # "fixed_point_iteration"
               /\ historial[k].iteracion = k

\* C16 amended: as stated for every solver but
\* metodos_num.fixed_point_iteration, whose history is the plain list of
\* iterates xs, with x0 first: iterations_used + 1 values without index.
C16_HistoryPerIterationButXs ==
    SolverReturned =>
        IF solver = "fixed_point_iteration"
        THEN /\ Len(xs) = result.iters + 1
             /\ xs[1] = args.x0
             /\ historial = <<>>
        ELSE /\ Len(historial) = result.iters
             /\ \A k \in 1..Len(historial) : historial[k].iteracion = k

\* An exhausted run and its records.
C16_Witness ==
    /\ SolverReturned /\ outcome = "exhausted"
    /\ solver = "metodo_interpolacion_lineal"
    /\ result.iters >= 2 /\ Len(historial) >= 2

IsTanteo == solver \in TanteoSolvers

\* The grid sub-intervals (x_k, x_k + paso) from xk on with
\* x_k + paso <= x_max and f(x_k) * f(x_k + paso) < 0, in ascending order.
RECURSIVE GridSignChanges(_, _, _, _)
GridSignChanges(f, xk, x_max, paso) ==
    IF Less(x_max, Add(xk, paso)) THEN <<>>
    ELSE (IF Less(Mul(F(f, xk), F(f, Add(xk, paso))), Zero)
          THEN <<<<xk, Add(xk, paso)>>>>
          ELSE <<>>)
             \o GridSignChanges(f, Add(xk, paso), x_max, paso)

\* C17: metodo_tanteo returns, in ascending order, exactly the grid
\* sub-intervals (x_k, x_k + paso) with x_k = x_min + k*paso and
\* x_k + paso <= x_max on which f changes sign.
C17_TanteoExactGrid ==
    (IsTanteo /\ pc = "returned" /\ args.falla = None) =>
        intervalos = GridSignChanges(args.f, args.x_min, args.x_max, args.paso)

IsProbarNewton == solver = "probar_metodo_newton_raphson"

\* |v - 1.3247179| < 1e-6 for a fraction v:
\* |n * 10^7 - 13247179 * d| < 10 * d.
CercaDeLaRaiz(v) ==
    MagLess(ZSub(ZMul(v.n, ZOf(10000000)), ZMul(ZOf(13247179), v.d)).m,
            ZMul(ZOf(10), v.d).m)

\* C18: Newton-Raphson on x^3 - x - 1 from x0 = 1 with tol = 1e-6 converges
\* to a root estimate of about 1.3247179 in fewer than 10 iterations
\* (when the call allows 10 iterations or more).
C18_CubicConverges ==
    (IsProbarNewton /\ args.x0 = Int2Num(1) /\ args.tol = Sci(1, -6)
        /\ args.max_iter >= 10) =>
        /\ i < 10
        /\ pc # "raised"
        /\ pc = "returned" =>
               /\ outcome = "converged"
               /\ result.iters < 10
               /\ CercaDeLaRaiz(result.root)

C18_Witness ==
    /\ IsProbarNewton /\ args.x0 = Int2Num(1) /\ args.tol = Sci(1, -6)
    /\ args.max_iter >= 10
    /\ pc = "returned" /\ outcome = "converged" /\ result.iters = 5
    /\ CercaDeLaRaiz(result.root)

ResetVariant ==
    /\ solver = "punto_fijo_impl" /\ args.usar_aitken
    /\ pc \in {"loop", "returned"}

\* Iteration k of the call applied the acceleration.
Acelerada(k) == historial[k].x_aitken # None

\* C19: in the reset-every-3 variant with Aitken enabled the acceleration is
\* applied at iteration k exactly when k is a multiple of 3; after i
\* iterations the buffer holds i mod 3 values (so (k-1) mod 3 at the start
\* of iteration k, at most 3 once x is appended), it is empty after each
\* acceleration, and the accelerated value is the x of the next iteration.
C19_AitkenEveryThird ==
    ResetVariant =>
        /\ Len(historial) = i
        /\ Len(valores_aitken) = i % 3
        /\ \A k \in 1..i : Acelerada(k) <=> (k % 3 = 0)
        /\ \A k \in 1..i :
               Acelerada(k) => historial[k].x_siguiente = historial[k].x_aitken
        /\ \A k \in 1..(i - 1) : historial[k + 1].x = historial[k].x_siguiente
        /\ (pc = "loop" /\ i >= 1) => x = historial[i].x_siguiente
        /\ (i >= 1 /\ Acelerada(i)) => valores_aitken = <<>>

C19_Witness ==
    /\ ResetVariant /\ i >= 4
    /\ Acelerada(3) /\ ~ Acelerada(4)
    /\ historial[3].x_aitken # historial[3].gx
    /\ historial[4].x = historial[3].x_aitken
    /\ Len(valores_aitken) = 1

\* Three consecutive terms of the g-iteration: (v, g(v), g(g(v))).
Consecutivos(g, v0, v1, v2) == v1 = F(g, v0) /\ v2 = F(g, v1)

\* The next iteration of the sliding-window variant applies Aitken.
SlidingApplies ==
    /\ solver = "metodo_punto_fijo" /\ args.usar_aitken
    /\ pc = "loop" /\ i >= 2 /\ i < args.max_iter

\* The next iteration of the reset-every-3 variant applies Aitken.
ResetApplies ==
    /\ solver = "punto_fijo_impl" /\ args.usar_aitken
    /\ pc = "loop" /\ Len(valores_aitken) = 2 /\ i < args.max_iter

ResetOnConsecutive ==
    ResetApplies =>
        Consecutivos(args.f, valores_aitken[1], valores_aitken[2], x)

\* C20: every application of Aitken acceleration inside the fixed-point
\* solvers, reset-every-3 and sliding-window alike, receives three
\* consecutive terms (x, g(x), g(g(x))) of the g-iteration.
C20_AitkenOnConsecutive ==
    /\ SlidingApplies => Consecutivos(args.f, x_prev2, x_prev1, x)
    /\ ResetOnConsecutive

RegulaFalsiRunning == IsRegulaFalsi /\ pc \in {"loop", "returned"}

\* a - f(a)*(b-a)/(f(a)-f(b)) at the bracket of a history record.
InteriorAsWritten(h) ==
    Sub(h.a, Div(Mul(F(args.f, h.a), Sub(h.b, h.a)),
                 Sub(F(args.f, h.a), F(args.f, h.b))))

\* a - f(a)*(b-a)/(f(b)-f(a)): the root of the secant through the endpoints.
InteriorSecant(h) ==
    Sub(h.a, Div(Mul(F(args.f, h.a), Sub(h.b, h.a)),
                 Sub(F(args.f, h.b), F(args.f, h.a))))

\* C21: each regula falsi iteration computes the interior point from the
\* current bracket as c = a - f(a)*(b-a)/(f(a)-f(b)).
C21_InteriorAsWritten ==
    RegulaFalsiRunning =>
        \A k \in 1..Len(historial) : historial[k].c = InteriorAsWritten(historial[k])

\* C21, with the denominator the code uses: each regula falsi iteration
\* computes c = a - f(a)*(b-a)/(f(b)-f(a)) from the current bracket.
C21_InteriorIsSecantRoot ==
    RegulaFalsiRunning =>
        \A k \in 1..Len(historial) : historial[k].c = InteriorSecant(historial[k])

C21_Witness ==
    /\ RegulaFalsiRunning /\ Len(historial) >= 2
    /\ historial[2].c = InteriorSecant(historial[2])
    /\ historial[2].c # InteriorAsWritten(historial[2])
    /\ F(args.f, historial[2].c) # Zero

\* |c - c_prev| of iteration k, c_prev the interior point of iteration
\* k - 1; |b - a| at the first iteration.
StepFromPrevious(k) ==
    IF k = 1 THEN Abs(Sub(historial[1].b, historial[1].a))
    ELSE Abs(Sub(historial[k].c, historial[k - 1].c))

\* |c - b| of iteration k, b the right endpoint the iteration starts with.
StepFromEndpoint(k) == Abs(Sub(historial[k].c, historial[k].b))

ResidualBelowTol(k) == Less(Abs(F(args.f, historial[k].c)), args.tol)

\* Iteration k is the one the call returned at.
StoppedAt(k) ==
    k = Len(historial) /\ pc = "returned" /\ outcome = "converged"

LinealStopsOnPrevious ==
    (solver = "metodo_interpolacion_lineal" /\ Called) =>
        \A k \in 1..Len(historial) :
            StoppedAt(k) <=>
                (ResidualBelowTol(k) \/ Less(StepFromPrevious(k), args.tol))

\* C22: regula falsi stops at the first iteration where |f(c)| < tol or
\* |c - c_prev| < tol, c_prev the interior point of the previous iteration,
\* the first iteration using |b - a| in place of |c - c_prev|.
C22_StopsOnPreviousInterior ==
    (IsRegulaFalsi /\ Called) =>
        \A k \in 1..Len(historial) :
            StoppedAt(k) <=>
                (ResidualBelowTol(k) \/ Less(StepFromPrevious(k), args.tol))

NumStopsOnEndpoint ==
    (solver = "regula_falsi" /\ Called) =>
        \A k \in 1..Len(historial) :
            StoppedAt(k) <=>
                (ResidualBelowTol(k) \/ Less(StepFromEndpoint(k), args.tol))

\* A loop iteration of a bracketing solver that computed its point c'.
BracketIteration ==
    IsBracketSolver /\ pc = "loop" /\ i' = i + 1 /\ pc' \in {"loop", "returned"}

\* C23: in bisection and regula falsi every iteration that does not stop
\* replaces exactly one endpoint with c, b when f(a)*f(c) < 0 and a
\* otherwise, leaving the other endpoint unchanged; the iteration that stops
\* changes neither endpoint.
C23_OneEndpointReplaced ==
    [][BracketIteration =>
          IF pc' = "loop"
          THEN IF Less(Product(a, c'), Zero)
               THEN b' = c' /\ a' = a
               ELSE a' = c' /\ b' = b
          ELSE a' = a /\ b' = b]_vars

\* A call that replaced each endpoint at least once and then stopped with
\* the bracket its last iteration started from.
C23_Witness ==
    /\ IsBracketSolver /\ pc = "returned" /\ outcome = "converged"
    /\ Len(historial) >= 3
    /\ a # args.a /\ b # args.b
    /\ a = historial[Len(historial)].a /\ b = historial[Len(historial)].b
    /\ \E k \in 1..(Len(historial) - 1) :
           /\ historial[k + 1].b = historial[k].c
           /\ historial[k + 1].a = historial[k].a
    /\ \E k \in 1..(Len(historial) - 1) :
           /\ historial[k + 1].a = historial[k].c
           /\ historial[k + 1].b = historial[k].b

\* The stopping test of a bisection variant.
BisectionStopOf(s, vfc, va, vb, tol) ==
    IF s = "bisection" THEN BisectionStop(vfc, va, vb, tol)
    ELSE IntervaloMedioStop(vfc, va, vb, tol)

Visita(va, vb) == [a |-> va, b |-> vb, c |-> Midpoint(va, vb)]

\* The whole run of a bisection variant from the bracket (va, vb) after k
\* iterations: the iteration it returns at and the brackets and midpoints
\* it visits.
RECURSIVE Corrida(_, _, _, _, _, _, _, _)
Corrida(s, f, va, vb, tol, n, k, visitas) ==
    IF k = n THEN [iters |-> n, visitas |-> visitas]
    ELSE IF BisectionStopOf(s, F(f, Midpoint(va, vb)), va, vb, tol)
    THEN [iters |-> k + 1, visitas |-> Append(visitas, Visita(va, vb))]
    ELSE IF ReplaceB(F(f, va), F(f, Midpoint(va, vb)))
    THEN Corrida(s, f, va, Midpoint(va, vb), tol, n, k + 1,
                 Append(visitas, Visita(va, vb)))
    ELSE Corrida(s, f, Midpoint(va, vb), vb, tol, n, k + 1,
                 Append(visitas, Visita(va, vb)))

\* The other variant run on the arguments of the running call.
OtraCorrida(s) ==
    Corrida(s, args.f, args.a, args.b, args.tol, args.max_iter, 0, <<>>)

\* The brackets and midpoints of the history of the running call.
Visitas == [k \in 1..Len(historial) |->
               [a |-> historial[k].a, b |-> historial[k].b, c |-> historial[k].c]]

IsPrefix(u, v) == Len(u) <= Len(v) /\ u = SubSeq(v, 1, Len(u))

\* The half-width run (iterations h, visits u) against the width run
\* (iterations w, visits v).
HalfAgainstWidth(h, u, w, v) == (w = h \/ w = h + 1) /\ IsPrefix(u, v)

BisectionReturnedAscending ==
    IsBisection /\ pc = "returned" /\ Less(args.a, args.b)

\* C24: on the same f, bracket (a < b), tol and max_iter the variant that
\* stops on (b-a)/2 < tol and the variant that stops on |b-a| < tol visit
\* the same sequence of brackets and midpoints, and the half-width variant
\* returns at the same iteration as the width variant or exactly one
\* iteration earlier.
C24_HalfWidthOneEarlier ==
    BisectionReturnedAscending =>
        IF solver = "bisection"
        THEN HalfAgainstWidth(result.iters, Visitas,
                 OtraCorrida("metodo_intervalo_medio").iters,
                 OtraCorrida("metodo_intervalo_medio").visitas)
        ELSE HalfAgainstWidth(OtraCorrida("bisection").iters,
                 OtraCorrida("bisection").visitas, result.iters, Visitas)

\* The half-width variant returned one iteration before the width variant
\* does, after at least one endpoint update.
C24_Witness ==
    /\ BisectionReturnedAscending /\ solver = "bisection"
    /\ result.iters >= 2
    /\ OtraCorrida("metodo_intervalo_medio").iters = result.iters + 1
    /\ IsPrefix(Visitas, OtraCorrida("metodo_intervalo_medio").visitas)

\* A loop iteration has run to its end (it returned or went on).
Iterated == pc \in {"loop", "returned"} /\ evaluaciones # SinEvaluar

OnceOrTwice ==
    IF IsNewton \/ IsProbarNewton THEN evaluaciones = Evaluado(1, 1)
    ELSE evaluaciones.df = 0 /\ evaluaciones.f \in 1..2

\* C25: each loop iteration of every solver evaluates the caller-supplied
\* function once or twice (for Newton, f once and f' once), never more.
C25_OnceOrTwice == Iterated => OnceOrTwice

\* C25 with metodo_interpolacion_lineal apart: its iteration evaluates f
\* three times when it returns and four times when it goes on; each loop
\* iteration of every other solver evaluates f once or twice (for Newton,
\* f once and f' once).
C25_OnceOrTwiceButLineal ==
    Iterated =>
        IF solver = "metodo_interpolacion_lineal"
        THEN /\ evaluaciones.df = 0
             /\ evaluaciones.f \in 3..4
             /\ evaluaciones.f = 3 <=> outcome = "converged"
        ELSE OnceOrTwice

C25_Witness ==
    /\ solver = "metodo_interpolacion_lineal" /\ pc = "loop" /\ i >= 2
    /\ evaluaciones = Evaluado(4, 0)

RegulaFalsiAscending ==
    IsRegulaFalsi /\ Called /\ Less(args.a, args.b) /\ EnteredOpposite

\* The bracket (u, v) lies within the initial bracket.
WithinInitial(u, v) == Leq(args.a, u) /\ Less(u, v) /\ Leq(v, args.b)

\* C26: in regula falsi entered with a < b and f(a)*f(b) < 0 the interior
\* point c lies strictly between a and b at every iteration, every bracket
\* is contained in the initial bracket, and the bracket width strictly
\* decreases at each endpoint update.
C26_InteriorStrictlyInside ==
    RegulaFalsiAscending =>
        /\ WithinInitial(a, b)
        /\ \A k \in 1..Len(historial) :
               /\ Less(historial[k].a, historial[k].c)
               /\ Less(historial[k].c, historial[k].b)
               /\ WithinInitial(historial[k].a, historial[k].b)
        /\ \A k \in 1..(Len(historial) - 1) :
               Less(Width(historial[k + 1]), Width(historial[k]))
        /\ (pc = "loop" /\ i >= 1) =>
               Less(Sub(b, a), Width(historial[Len(historial)]))

C26_Witness ==
    /\ RegulaFalsiAscending /\ pc = "loop" /\ Len(historial) >= 2
    /\ Less(Width(historial[2]), Width(historial[1]))
    /\ Less(Sub(b, a), Width(historial[2]))
    /\ Less(historial[2].a, historial[2].c)
    /\ Less(historial[2].c, historial[2].b)
    /\ (a = historial[2].c \/ b = historial[2].c)
    /\ (Less(args.a, a) \/ Less(b, args.b))

\* g(x) = x + 1 moves every x by 1: with tol <= 1 no step of g is small.
NoSmallStep == args.f = "xp1" /\ Leq(args.tol, Int2Num(1))

\* C27: with Aitken enabled, for a g with |g(x) - x| >= tol at every x the
\* fixed-point solver never returns before exhausting max_iter, also when
\* the Aitken denominator fallback fires.
C27_NoConvergenceWithoutSmallStep ==
    (solver \in {"metodo_punto_fijo", "punto_fijo_impl"} /\ args.usar_aitken
        /\ NoSmallStep /\ pc = "returned") =>
        result.iters = args.max_iter

\* |b - a| / 2 of the bracket the returning iteration started from.
TrueHalfWidth == Half(Abs(Sub(b, a)))

\* C28: whenever bisection returns because a stopping criterion fired,
\* |f(c)| < tol or the true half-width |b-a|/2 of the current bracket is
\* < tol, whichever order the endpoints were passed in.
C28_StopMeansSmall ==
    (IsBisection /\ pc = "returned" /\ outcome = "converged") =>
        \/ Less(Abs(F(args.f, result.root)), args.tol)
        \/ Less(TrueHalfWidth, args.tol)

\* u is a grid point x_min + k*paso, k = 0, 1, ...
EnLaMalla(u) ==
    /\ Div(Sub(u, args.x_min), args.paso).d = 1
    /\ Div(Sub(u, args.x_min), args.paso).e >= 0
    /\ Div(Sub(u, args.x_min), args.paso).n >= 0

\* func was evaluated at u and returned a value.
EvaluadoCon(u) == EnLaMalla(u) /\ u # args.falla

\* C29: every interval (a, b) returned by metodo_tanteo has both endpoints
\* among the grid points at which f was successfully evaluated and satisfies
\* f(a)*f(b) < 0, also when f raises at some grid points.
C29_EndpointsEvaluated ==
    (IsTanteo /\ pc = "returned") =>
        \A k \in 1..Len(intervalos) :
            /\ EvaluadoCon(intervalos[k][1])
            /\ EvaluadoCon(intervalos[k][2])
            /\ Less(Product(intervalos[k][1], intervalos[k][2]), Zero)

\* The grid points the loop visits from u on.
RECURSIVE Visitados(_)
Visitados(u) ==
    IF EnRango(u) THEN {u} \cup Visitados(Add(u, args.paso)) ELSE {}

\* The scanned points: x_min and the points the loop visits.
Escaneados == {args.x_min} \cup Visitados(Add(args.x_min, args.paso))

\* C30: if a total f is negative at one scanned grid point and positive at
\* another, metodo_tanteo returns at least one interval (a root lying
\* exactly on a grid point is not lost by the scan).
C30_RootOnGridNotLost ==
    (IsTanteo /\ pc = "returned" /\ args.falla = None
        /\ \E u \in Escaneados : Less(F(args.f, u), Zero)
        /\ \E v \in Escaneados : Less(Zero, F(args.f, v))) =>
        intervalos # <<>>

============================================================================
